---- MODULE Spec2Model ----
(***************************************************************************)
(* A model of etl_pipeline (src/cloud_functions.py): the load of the five  *)
(* required CSV files, the aggregation of the sales rows into the fact     *)
(* table, the derivation of the time dimension, and the staging, packaging, *)
(* upload and cleanup of the six output tables.                            *)
(*                                                                         *)
(* Two specifications are given.  SpecT runs the transformation (lines     *)
(* 54-87) step by step over every Sales table of a bounded family.  Spec   *)
(* runs whole invocations of etl_pipeline, interleaved step by step, over  *)
(* one bucket and the one staging directory /tmp/etl_output.               *)
(*                                                                         *)
(* pandas is modelled by what its operations do on the values of the       *)
(* bounded domains: read_csv gives NaN for an empty numeric cell and keeps *)
(* text as text; groupby drops NaN keys and sorts the group keys; sum and  *)
(* mean skip NaN; merge(how="left") keeps the left rows in order;          *)
(* to_datetime parses each value on its own and raises on unparseable text.*)
(* Floating point rounding is not modelled: measures are naturals and the  *)
(* mean is an exact fraction.  Line 41 is read as what it is written to    *)
(* do, parse the downloaded text as CSV.                                   *)
(*                                                                         *)
(* The staging directory is modelled with the semantics of a POSIX file    *)
(* system: a name is a file, a directory or absent; os.remove raises on a  *)
(* name that is absent or a directory; os.rmdir raises on a directory that *)
(* is absent or not empty; writes through an open handle reach the file    *)
(* only while the file is still linked under its name.  os.listdir reports *)
(* the names in one fixed order.  Spec bounds the number of preemptions    *)
(* between the invocations by MaxPreemptions.                              *)
(***************************************************************************)
EXTENDS Integers, Sequences, FiniteSets, TLC

VARIABLES
    \* ---- the transformation, one run (SpecT) ----
    sales_df,          \* the Sales table: a sequence of rows
    sales_agg,         \* the per-SalesID aggregates (lines 54-58)
    sales_fact_table,  \* the fact table (lines 62-75)
    time_dim,          \* the time dimension (lines 79-87)
    tpc,               \* position of the run: "agg", "merge", "time", "done", "error"
    \* ---- whole invocations (Spec) ----
    bucket,            \* blob name -> content of the source bucket
    fs,                \* the staging directory /tmp/etl_output
    pc,                \* invocation -> position in etl_pipeline
    loaded,            \* invocation -> number of required files read so far
    tables,            \* invocation -> the output tables it has computed
    listing,           \* invocation -> the names os.listdir returned, still to process
    archive,           \* invocation -> the archive it opened and the entries it wrote to it
    raised,            \* invocation -> the exception that reached `except`, or NoError
    cleanup_error,     \* invocation -> whether cleanup raised
    staged,            \* invocation -> the table names it wrote to the staging directory
    delivered,         \* invocation -> the archive it uploaded, or NotDelivered
    output_blob,       \* the blob etl_output.zip of the bucket
    result,            \* invocation -> what etl_pipeline returned to its caller
    \* ---- the schedule of the invocations ----
    running,           \* the invocation that took the last step
    preemptions        \* how often an unfinished invocation was switched away from

tvars == <<sales_df, sales_agg, sales_fact_table, time_dim, tpc>>
pvars == <<bucket, fs, pc, loaded, tables, listing, archive, raised,
           cleanup_error, staged, delivered, output_blob, result>>
svars == <<running, preemptions>>
vars == <<sales_df, sales_agg, sales_fact_table, time_dim, tpc,
          bucket, fs, pc, loaded, tables, listing, archive, raised,
          cleanup_error, staged, delivered, output_blob, result,
          running, preemptions>>

\* The longest Sales table SpecT enumerates.
MaxRows == 2

\* How often Spec lets a step of one invocation come between two steps of another.
MaxPreemptions == 2

(***************************************************************************)
(* Values                                                                  *)
(***************************************************************************)

\* An empty numeric cell as read_csv returns it.
NaN == -1

\* A non-numeric text cell in a measure column (the column is then of dtype object).
NonNumeric == -2

\* A missing timestamp (an empty date cell after to_datetime).
NaT == <<>>

\* The text of the date cells and what to_datetime makes of each:
\* <<year, month, day, hour>>, NaT for an empty cell.  "not a date" is not in
\* the domain of the table: to_datetime raises on it.
DateTexts ==
    {"", "2024-01-01", "2024-01-02", "2024-01-01 08:00", "2024-01-01 17:00",
     "2023-12-31 17:00", "not a date"}

ParseTable ==
    [s \in {"", "2024-01-01", "2024-01-02", "2024-01-01 08:00",
            "2024-01-01 17:00", "2023-12-31 17:00"} |->
        CASE s = "" -> NaT
          [] s = "2024-01-01" -> <<2024, 1, 1, 0>>
          [] s = "2024-01-02" -> <<2024, 1, 2, 0>>
          [] s = "2024-01-01 17:00" -> <<2024, 1, 1, 17>>
          [] s = "2024-01-01 08:00" -> <<2024, 1, 1, 8>>
          [] s = "2023-12-31 17:00" -> <<2023, 12, 31, 17>>]

Parseable(s) == s \in DOMAIN ParseTable

to_datetime(s) == ParseTable[s]

(***************************************************************************)
(* Sequence helpers                                                        *)
(***************************************************************************)

RECURSIVE SelectIdx(_, _, _)
\* The indices i >= from of sequence s with s[i] in set S, ascending.
SelectIdx(s, S, from) ==
    IF from > Len(s) THEN <<>>
    ELSE IF s[from] \in S THEN <<from>> \o SelectIdx(s, S, from + 1)
    ELSE SelectIdx(s, S, from + 1)

Range(s) == {s[i] : i \in DOMAIN s}

RECURSIVE SumSeq(_)
SumSeq(s) == IF s = <<>> THEN 0 ELSE Head(s) + SumSeq(Tail(s))

RECURSIVE Flatten(_)
Flatten(ss) == IF ss = <<>> THEN <<>> ELSE Head(ss) \o Flatten(Tail(ss))

RECURSIVE GCD(_, _)
GCD(a, b) == IF b = 0 THEN a ELSE GCD(b, a % b)

RECURSIVE SetToSortedSeq(_)
\* The elements of a finite set of integers in ascending order.
SetToSortedSeq(S) ==
    IF S = {} THEN <<>>
    ELSE LET m == CHOOSE x \in S : \A y \in S : x <= y
         IN  <<m>> \o SetToSortedSeq(S \ {m})

(***************************************************************************)
(* Fact aggregation: lines 54-75                                           *)
(***************************************************************************)

\* The mean of no value at all: NaN in a float column of fractions.
NaNMean == <<>>

\* A fraction num/den in lowest terms.
Fraction(num, den) == LET g == GCD(num, den) IN <<num \div g, den \div g>>

\* Series.sum(): NaN is skipped, and the sum of nothing is 0.
SumSkipNa(vals) == SumSeq(SelectSeq(vals, LAMBDA v : v # NaN))

\* Series.mean(): NaN is skipped, and the mean of nothing is NaN.
MeanSkipNa(vals) ==
    LET nn == SelectSeq(vals, LAMBDA v : v # NaN)
    IN  IF nn = <<>> THEN NaNMean ELSE Fraction(SumSeq(nn), Len(nn))

\* groupby("SalesID") with dropna=True, sort=True: the distinct non-NaN keys, ascending.
GroupKeys(df) == SetToSortedSeq({df[i].SalesID : i \in DOMAIN df} \ {NaN})

\* The values of column col in the rows of df whose SalesID is k, in row order.
GroupColumn(df, k, col) ==
    LET idx == SelectIdx([i \in DOMAIN df |-> df[i].SalesID], {k}, 1)
    IN  [j \in DOMAIN idx |-> df[idx[j]][col]]

\* sales_df.groupby("SalesID").agg(sum, mean, sum).reset_index()
GroupByAgg(df) ==
    LET keys == GroupKeys(df)
    IN  [n \in DOMAIN keys |->
            [SalesID |-> keys[n],
             TotalSaleAmount |-> SumSkipNa(GroupColumn(df, keys[n], "SaleAmount")),
             TotalDiscountApplied |-> MeanSkipNa(GroupColumn(df, keys[n], "DiscountApplied")),
             TotalDeliveryFee |-> SumSkipNa(GroupColumn(df, keys[n], "DeliveryFee"))]]

\* mean over a column of dtype object raises: one text cell makes the whole column text.
AggRaises(df) == \E i \in DOMAIN df : df[i].DiscountApplied = NonNumeric

\* A left row joined with a right row of aggregates.
JoinRow(l, r) ==
    [SalesID |-> l.SalesID, ProductID |-> l.ProductID, CustomerID |-> l.CustomerID,
     CampaignID |-> l.CampaignID, DeliveryID |-> l.DeliveryID,
     OrderDate |-> l.OrderDate, DeliveryDate |-> l.DeliveryDate,
     SaleAmount |-> l.SaleAmount, DiscountApplied |-> l.DiscountApplied,
     DeliveryFee |-> l.DeliveryFee,
     TotalSaleAmount |-> r.TotalSaleAmount,
     TotalDiscountApplied |-> r.TotalDiscountApplied,
     TotalDeliveryFee |-> r.TotalDeliveryFee]

\* The right-hand columns of a left row that matches no right row.
NoMatch == [TotalSaleAmount |-> NaN, TotalDiscountApplied |-> NaNMean,
            TotalDeliveryFee |-> NaN]

\* Mutant of MergeLeft: an inner join, which drops the left rows without a match.
MergeInner(left, right) ==
    Flatten([i \in DOMAIN left |->
        LET m == SelectSeq(right, LAMBDA r : r.SalesID = left[i].SalesID)
        IN  [j \in DOMAIN m |-> JoinRow(left[i], m[j])]])

\* left.merge(right, on="SalesID", how="left"): every left row in order, once per
\* matching right row, and once with NaN when no right row matches.
MergeLeft(left, right) ==
    Flatten([i \in DOMAIN left |->
        LET m == SelectSeq(right, LAMBDA r : r.SalesID = left[i].SalesID)
        IN  IF m = <<>> THEN <<JoinRow(left[i], NoMatch)>>
            ELSE [j \in DOMAIN m |-> JoinRow(left[i], m[j])]])

\* The projection of lines 63-75.
FactColumns(row) ==
    [SalesID |-> row.SalesID, ProductID |-> row.ProductID,
     CustomerID |-> row.CustomerID, CampaignID |-> row.CampaignID,
     DeliveryID |-> row.DeliveryID, OrderDate |-> row.OrderDate,
     TotalSaleAmount |-> row.TotalSaleAmount,
     TotalDiscountApplied |-> row.TotalDiscountApplied,
     TotalDeliveryFee |-> row.TotalDeliveryFee]

SalesFactTable(df, agg) ==
    LET sales_fact == MergeLeft(df, agg)
    IN  [i \in DOMAIN sales_fact |-> FactColumns(sales_fact[i])]

(***************************************************************************)
(* Time dimension: lines 79-87                                             *)
(***************************************************************************)

\* pd.concat([sales_df["OrderDate"], sales_df["DeliveryDate"]])
DateColumns(df) ==
    [i \in DOMAIN df |-> df[i].OrderDate] \o [i \in DOMAIN df |-> df[i].DeliveryDate]

\* Timestamps compare field by field: year, month, day, hour.
TsLess(a, b) ==
    \E k \in 1..4 : a[k] < b[k] /\ \A j \in 1..(k - 1) : a[j] = b[j]

RECURSIVE Unique(_)
\* Series.unique(): the distinct values in order of first appearance.
Unique(s) ==
    IF s = <<>> THEN <<>>
    ELSE LET front == Unique(SubSeq(s, 1, Len(s) - 1))
             last == s[Len(s)]
         IN  IF last \in Range(front) THEN front ELSE Append(front, last)

\* pd.to_datetime(...).dropna().unique()
UniqueDates(df) ==
    LET col == DateColumns(df)
        parsed == [i \in DOMAIN col |-> to_datetime(col[i])]
    IN  Unique(SelectSeq(parsed, LAMBDA t : t # NaT))

\* Mutant of Sorted: the dates stay in order of first appearance.
Unsorted(dates) == dates

\* sorted(unique_dates)
Sorted(dates) == SortSeq(dates, TsLess)

\* Date.dt.strftime("%Y%m%d"), the eight digits read as a number.
strftime(ts) == ts[1] * 10000 + ts[2] * 100 + ts[3]

\* The timestamp that the text of a TimeID read as %Y%m%d denotes.
ParseTimeID(id) == <<id \div 10000, (id \div 100) % 100, id % 100, 0>>

\* Date.dt.day_name() in the Gregorian calendar.
DayName(ts) ==
    LET t == <<0, 3, 2, 5, 0, 3, 5, 1, 4, 6, 2, 4>>
        y == IF ts[2] < 3 THEN ts[1] - 1 ELSE ts[1]
        dow == (y + (y \div 4) - (y \div 100) + (y \div 400) + t[ts[2]] + ts[3]) % 7
    IN  <<"Sunday", "Monday", "Tuesday", "Wednesday", "Thursday", "Friday",
          "Saturday">>[dow + 1]

TimeDimRow(ts) ==
    [Date |-> ts, TimeID |-> strftime(ts), Year |-> ts[1], Month |-> ts[2],
     Day |-> ts[3], WeekDay |-> DayName(ts)]

TimeDim(df) ==
    LET dates == Sorted(UniqueDates(df))
    IN  [i \in DOMAIN dates |-> TimeDimRow(dates[i])]

\* to_datetime raises on unparseable text, and the .dt accessor of line 83 raises
\* on the column built from no date at all (it is not a datetime column).
TimeDimRaises(df) ==
    LET col == DateColumns(df)
    IN  \/ \E i \in DOMAIN col : ~Parseable(col[i])
        \/ \A i \in DOMAIN col : col[i] = ""

(***************************************************************************)
(* The Sales tables enumerated                                             *)
(***************************************************************************)

SalesRow(sid, keys, orderDate, deliveryDate, measures) ==
    [SalesID |-> sid, ProductID |-> keys[1], CustomerID |-> keys[2],
     CampaignID |-> keys[3], DeliveryID |-> keys[4],
     OrderDate |-> orderDate, DeliveryDate |-> deliveryDate,
     SaleAmount |-> measures[1], DiscountApplied |-> measures[2],
     DeliveryFee |-> measures[3]]

\* <<ProductID, CustomerID, CampaignID, DeliveryID>>
KeyTuples == {<<10, 30, 50, 70>>, <<20, 40, 60, 80>>}

\* <<SaleAmount, DiscountApplied (in hundredths), DeliveryFee>>
MeasureTuples ==
    {<<100, 10, 5>>, <<50, 20, 5>>, <<200, 0, 10>>, <<NaN, NaN, NaN>>,
     <<50, NaN, 5>>, <<50, NonNumeric, 5>>}

\* Rows that vary the key and the measures.
FactRows ==
    {SalesRow(sid, k, IF k[1] = 10 THEN "2024-01-01" ELSE "2024-01-02", "", m) :
        sid \in {NaN, 1, 2}, k \in KeyTuples, m \in MeasureTuples}

\* Rows that vary the two dates.
TimeRows ==
    {SalesRow(1, <<10, 30, 50, 70>>, od, dd, <<100, 10, 5>>) :
        od \in DateTexts, dd \in DateTexts}

SeqsUpTo(S, n) == UNION {[1..k -> S] : k \in 0..n}

SalesTables == SeqsUpTo(FactRows, MaxRows) \cup SeqsUpTo(TimeRows, MaxRows)

(***************************************************************************)
(* The transformation, step by step (SpecT)                                *)
(***************************************************************************)

\* Lines 54-58.
Aggregate ==
    /\ tpc = "agg"
    /\ IF AggRaises(sales_df)
       THEN tpc' = "error" /\ UNCHANGED sales_agg
       ELSE tpc' = "merge" /\ sales_agg' = GroupByAgg(sales_df)
    /\ UNCHANGED <<sales_df, sales_fact_table, time_dim, pvars, svars>>

\* Lines 62-75.
Merge ==
    /\ tpc = "merge"
    /\ sales_fact_table' = SalesFactTable(sales_df, sales_agg)
    /\ tpc' = "time"
    /\ UNCHANGED <<sales_df, sales_agg, time_dim, pvars, svars>>

\* Lines 79-87.
BuildTimeDim ==
    /\ tpc = "time"
    /\ IF TimeDimRaises(sales_df)
       THEN tpc' = "error" /\ UNCHANGED time_dim
       ELSE tpc' = "done" /\ time_dim' = TimeDim(sales_df)
    /\ UNCHANGED <<sales_df, sales_agg, sales_fact_table, pvars, svars>>

(***************************************************************************)
(* Invocations of etl_pipeline (Spec)                                      *)
(***************************************************************************)

\* The invocations that may run at once in one function instance.
Invocations == {"inv1", "inv2"}

\* Whoever wrote what the staging directory holds before any invocation starts.
Earlier == "earlier"

\* Lines 20-26.
file_paths ==
    <<"Customer.csv", "Product.csv", "Sales.csv", "MarketCampaign.csv", "Delivery.csv">>

\* The keys of output_files in insertion order (lines 91-98), as file names (line 106).
output_names ==
    <<"Customer_Dimension.csv", "Product_Dimension.csv", "Sales_Fact.csv",
      "Time_Dimension.csv", "Campaign_Dimension.csv", "Delivery_Dimension.csv">>

\* Lines 112 and 124.
ZipName == "etl_output.zip"

\* The names a directory entry of the staging directory may have, in the order
\* os.listdir reports them.
DirNames == output_names \o <<ZipName, "Legacy.csv", "old">>

\* file_name.endswith(".csv"), line 116.
EndsWithCsv(name) == name \in Range(output_names) \cup {"Legacy.csv"}

NoEntry == [kind |-> "none", owner |-> "", content |-> {}, writers |-> {}]

FileBy(owner) == [kind |-> "file", owner |-> owner, content |-> {}, writers |-> {}]

SubDir == [kind |-> "dir", owner |-> Earlier, content |-> {}, writers |-> {}]

EmptyDir == [n \in Range(DirNames) |-> NoEntry]

\* What /tmp/etl_output may hold when the first invocation starts.
InitialStaging ==
    { [exists |-> FALSE, files |-> EmptyDir],
      [exists |-> TRUE, files |-> EmptyDir],
      [exists |-> TRUE, files |-> [EmptyDir EXCEPT !["Legacy.csv"] = FileBy(Earlier)]],
      [exists |-> TRUE, files |-> [EmptyDir EXCEPT !["old"] = SubDir]],
      [exists |-> TRUE, files |-> [EmptyDir EXCEPT !["Sales_Fact.csv"] = FileBy(Earlier),
                                                   ![ZipName] = FileBy(Earlier)]] }

\* The Sales tables the bucket may hold: the worked example of two sales over three
\* rows, a table with an unparseable date, a table with a text discount.
ExampleSales ==
    << SalesRow(1, <<10, 30, 50, 70>>, "2024-01-02", "2024-01-01", <<100, 10, 5>>),
       SalesRow(1, <<20, 30, 50, 70>>, "2024-01-01", "", <<50, 20, 5>>),
       SalesRow(2, <<10, 40, 60, 80>>, "2024-01-01", "", <<200, 0, 10>>) >>

BadDateSales ==
    << SalesRow(1, <<10, 30, 50, 70>>, "not a date", "", <<100, 10, 5>>) >>

TextDiscountSales ==
    << SalesRow(1, <<10, 30, 50, 70>>, "2024-01-01", "", <<50, NonNumeric, 5>>) >>

Blob(state, table) == [state |-> state, table |-> table]

\* The contents a required blob may have: absent, not well-formed CSV, or a table.
BlobContents(file) ==
    IF file = "Sales.csv"
    THEN {Blob("absent", <<>>), Blob("malformed", <<>>), Blob("ok", ExampleSales),
          Blob("ok", BadDateSales), Blob("ok", TextDiscountSales)}
    ELSE {Blob("absent", <<>>), Blob("malformed", <<>>), Blob("ok", <<>>)}

Buckets ==
    {b \in [Range(file_paths) -> UNION {BlobContents(f) : f \in Range(file_paths)}] :
        \A f \in Range(file_paths) : b[f] \in BlobContents(f)}

NoError == [kind |-> "none", at |-> "", name |-> ""]

Error(kind, at, name) == [kind |-> kind, at |-> at, name |-> name]

NotDelivered == [sent |-> FALSE, entries |-> {}]

Delivered(entries) == [sent |-> TRUE, entries |-> entries]

\* No archive opened yet.
NoArchive == [built |-> FALSE, entries |-> {}]

NoTables == [fact |-> <<>>, time |-> <<>>, ready |-> FALSE]

\* Invocation i takes the next step: a switch away from an invocation that has
\* not returned counts as a preemption.
Schedule(i) ==
    LET preempts == running \in Invocations \ {i} /\ pc[running] # "done"
    IN  /\ preempts => preemptions < MaxPreemptions
        /\ preemptions' = IF preempts THEN preemptions + 1 ELSE preemptions
        /\ running' = i

\* An exception inside `try` (lines 132-133): the handler prints it, and control
\* reaches `finally`.
Raise(i, err) ==
    /\ pc' = [pc EXCEPT ![i] = "finally"]
    /\ raised' = [raised EXCEPT ![i] = err]

\* The end of etl_pipeline: there is no return statement, the caller gets None.
Return(i) ==
    /\ pc' = [pc EXCEPT ![i] = "done"]
    /\ result' = [result EXCEPT ![i] = "None"]

\* Mutant of LoadFile: no blob.exists() check, the download of an absent blob raises.
LoadFileNoExistsCheck(i) ==
    /\ pc[i] = "load"
    /\ Schedule(i)
    /\ LET file == file_paths[loaded[i] + 1]
           blob == bucket[file]
       IN  IF blob.state = "absent"
           THEN Raise(i, Error("NotFound", "load", file)) /\ UNCHANGED loaded
           ELSE IF blob.state = "malformed"
           THEN Raise(i, Error("ParserError", "load", file)) /\ UNCHANGED loaded
           ELSE /\ loaded' = [loaded EXCEPT ![i] = @ + 1]
                /\ pc' = [pc EXCEPT ![i] =
                            IF loaded[i] + 1 = Len(file_paths) THEN "transform" ELSE "load"]
                /\ UNCHANGED raised
    /\ UNCHANGED <<tvars, bucket, fs, tables, listing, archive, cleanup_error, staged,
                   delivered, output_blob, result>>

\* One turn of the loop of lines 36-41: the next required file is checked, downloaded
\* and parsed.
LoadFile(i) ==
    /\ pc[i] = "load"
    /\ Schedule(i)
    /\ LET file == file_paths[loaded[i] + 1]
           blob == bucket[file]
       IN  IF blob.state = "absent"
           THEN Raise(i, Error("FileNotFoundError", "load", file)) /\ UNCHANGED loaded
           ELSE IF blob.state = "malformed"
           THEN Raise(i, Error("ParserError", "load", file)) /\ UNCHANGED loaded
           ELSE /\ loaded' = [loaded EXCEPT ![i] = @ + 1]
                /\ pc' = [pc EXCEPT ![i] =
                            IF loaded[i] + 1 = Len(file_paths) THEN "transform" ELSE "load"]
                /\ UNCHANGED raised
    /\ UNCHANGED <<tvars, bucket, fs, tables, listing, archive, cleanup_error, staged,
                   delivered, output_blob, result>>

\* The exception lines 54-87 raise on Sales table df, "none" if they raise none.
TransformError(df) ==
    IF AggRaises(df) THEN "TypeError"
    ELSE IF \E r \in Range(df) : ~Parseable(r.OrderDate) \/ ~Parseable(r.DeliveryDate)
    THEN "ValueError"
    ELSE IF TimeDimRaises(df) THEN "AttributeError"
    ELSE "none"

\* Mutant of Transform: an exception of the transformation is recorded and the run
\* goes on to packaging with the tables it has.
TransformContinues(i) ==
    /\ pc[i] = "transform"
    /\ Schedule(i)
    /\ LET df == bucket["Sales.csv"].table
           err == TransformError(df)
       IN  /\ raised' = [raised EXCEPT ![i] =
                            IF err = "none" THEN @ ELSE Error(err, "transform", "Sales.csv")]
           /\ tables' = [tables EXCEPT ![i] =
                            IF err = "none"
                            THEN [fact |-> SalesFactTable(df, GroupByAgg(df)),
                                  time |-> TimeDim(df), ready |-> TRUE]
                            ELSE @]
           /\ pc' = [pc EXCEPT ![i] = "makedirs"]
    /\ UNCHANGED <<tvars, bucket, fs, loaded, listing, archive, cleanup_error, staged,
                   delivered, output_blob, result>>

\* Lines 45-98: the fact table and the time dimension are computed from Sales.csv;
\* the other four tables pass through.
Transform(i) ==
    /\ pc[i] = "transform"
    /\ Schedule(i)
    /\ LET df == bucket["Sales.csv"].table
           err == TransformError(df)
       IN  IF err # "none"
           THEN Raise(i, Error(err, "transform", "Sales.csv")) /\ UNCHANGED tables
           ELSE /\ tables' = [tables EXCEPT ![i] =
                                 [fact |-> SalesFactTable(df, GroupByAgg(df)),
                                  time |-> TimeDim(df), ready |-> TRUE]]
                /\ pc' = [pc EXCEPT ![i] = "makedirs"]
                /\ UNCHANGED raised
    /\ UNCHANGED <<tvars, bucket, fs, loaded, listing, archive, cleanup_error, staged,
                   delivered, output_blob, result>>

\* Line 102: os.makedirs(temp_dir, exist_ok=True).
MakeDirs(i) ==
    /\ pc[i] = "makedirs"
    /\ Schedule(i)
    /\ fs' = [fs EXCEPT !.exists = TRUE]
    /\ pc' = [pc EXCEPT ![i] = "stage"]
    /\ UNCHANGED <<tvars, bucket, loaded, tables, listing, archive, raised,
                   cleanup_error, staged, delivered, output_blob, result>>

\* One turn of the loop of lines 105-108: the next table is written to the staging
\* directory, over whatever file has its name.
StageTable(i) ==
    /\ pc[i] = "stage"
    /\ Schedule(i)
    /\ LET name == output_names[Cardinality(staged[i]) + 1]
       IN  IF ~fs.exists
           THEN Raise(i, Error("OSError", "stage", name)) /\ UNCHANGED <<fs, staged>>
           ELSE /\ fs' = [fs EXCEPT !.files[name] = FileBy(i)]
                /\ staged' = [staged EXCEPT ![i] = @ \cup {name}]
                /\ pc' = [pc EXCEPT ![i] =
                            IF Cardinality(staged[i]) + 1 = Len(output_names)
                            THEN "zip_open" ELSE "stage"]
                /\ UNCHANGED raised
    /\ UNCHANGED <<tvars, bucket, loaded, tables, listing, archive, cleanup_error,
                   delivered, output_blob, result>>

\* The names present in the staging directory, in listing order.
ListDir(files) == SelectSeq(DirNames, LAMBDA n : files[n].kind # "none")

\* The archive file with the handle of invocation i closed (the end of `with`).
CloseZip(files, i) ==
    [files EXCEPT ![ZipName].writers = @ \ {i}]

\* Line 113: zipfile.ZipFile(zip_file_path, "w") creates the archive file or
\* truncates the one that is there.
OpenZip(i) ==
    /\ pc[i] = "zip_open"
    /\ Schedule(i)
    /\ IF ~fs.exists
       THEN Raise(i, Error("FileNotFoundError", "zip", ZipName)) /\ UNCHANGED fs
       ELSE /\ fs' = [fs EXCEPT !.files[ZipName] =
                        [kind |-> "file", owner |-> i, content |-> {},
                         writers |-> fs.files[ZipName].writers \cup {i}]]
            /\ pc' = [pc EXCEPT ![i] = "zip_list"]
            /\ UNCHANGED raised
    /\ archive' = [archive EXCEPT ![i] = [built |-> TRUE, entries |-> {}]]
    /\ UNCHANGED <<tvars, bucket, loaded, tables, listing, cleanup_error, staged,
                   delivered, output_blob, result>>

\* Lines 114 and 116: os.listdir(temp_dir), of which the loop keeps the .csv names.
ListForZip(i) ==
    /\ pc[i] = "zip_list"
    /\ Schedule(i)
    /\ IF ~fs.exists
       THEN Raise(i, Error("FileNotFoundError", "zip", "")) /\ UNCHANGED listing
       ELSE /\ listing' = [listing EXCEPT ![i] = SelectSeq(ListDir(fs.files), EndsWithCsv)]
            /\ pc' = [pc EXCEPT ![i] = "zip_write"]
            /\ UNCHANGED raised
    /\ UNCHANGED <<tvars, bucket, fs, loaded, tables, archive, cleanup_error, staged,
                   delivered, output_blob, result>>

\* One turn of the loop of lines 114-117: zipf.write of the next listed name, read from
\* the staging directory as it is now; after the last name the archive is closed.
ZipWrite(i) ==
    /\ pc[i] = "zip_write"
    /\ Schedule(i)
    /\ IF listing[i] = <<>>
       THEN /\ fs' = [fs EXCEPT !.files = CloseZip(@, i)]
            /\ pc' = [pc EXCEPT ![i] = "upload"]
            /\ UNCHANGED <<listing, archive, raised>>
       ELSE LET name == Head(listing[i])
                entry == fs.files[name]
                item == [name |-> name, owner |-> entry.owner]
            IN  IF entry.kind = "none"
                THEN /\ Raise(i, Error("FileNotFoundError", "zip", name))
                     /\ fs' = [fs EXCEPT !.files = CloseZip(@, i)]
                     /\ UNCHANGED <<listing, archive>>
                ELSE /\ archive' = [archive EXCEPT ![i].entries = @ \cup {item}]
                     /\ fs' = [fs EXCEPT !.files[ZipName].content =
                                 IF i \in fs.files[ZipName].writers
                                 THEN @ \cup {item} ELSE @]
                     /\ listing' = [listing EXCEPT ![i] = Tail(@)]
                     /\ UNCHANGED <<pc, raised>>
    /\ UNCHANGED <<tvars, bucket, loaded, tables, cleanup_error, staged, delivered,
                   output_blob, result>>

\* Lines 124-126: upload_from_filename reads the archive file at its path; the upload
\* itself may fail.
Upload(i) ==
    /\ pc[i] = "upload"
    /\ Schedule(i)
    /\ \/ /\ fs.files[ZipName].kind = "none"
          /\ Raise(i, Error("FileNotFoundError", "upload", ZipName))
          /\ UNCHANGED <<delivered, output_blob>>
       \/ /\ fs.files[ZipName].kind # "none"
          /\ delivered' = [delivered EXCEPT ![i] = Delivered(fs.files[ZipName].content)]
          /\ output_blob' = Delivered(fs.files[ZipName].content)
          /\ pc' = [pc EXCEPT ![i] = "finally"]
          /\ UNCHANGED raised
       \/ /\ fs.files[ZipName].kind # "none"
          /\ Raise(i, Error("GoogleCloudError", "upload", ZipName))
          /\ UNCHANGED <<delivered, output_blob>>
    /\ UNCHANGED <<tvars, bucket, fs, loaded, tables, listing, archive, cleanup_error,
                   staged, result>>

\* Line 139: os.path.exists(temp_dir); without the directory cleanup has nothing to do.
CleanupExists(i) ==
    /\ pc[i] = "finally"
    /\ Schedule(i)
    /\ IF fs.exists
       THEN pc' = [pc EXCEPT ![i] = "cleanup_list"] /\ UNCHANGED result
       ELSE Return(i)
    /\ UNCHANGED <<tvars, bucket, fs, loaded, tables, listing, archive, raised,
                   cleanup_error, staged, delivered, output_blob>>

\* An exception inside cleanup (lines 144-145): it is printed and the function ends.
CleanupRaise(i) ==
    /\ cleanup_error' = [cleanup_error EXCEPT ![i] = TRUE]
    /\ Return(i)

\* Line 140: os.listdir(temp_dir).
CleanupList(i) ==
    /\ pc[i] = "cleanup_list"
    /\ Schedule(i)
    /\ IF ~fs.exists
       THEN CleanupRaise(i) /\ UNCHANGED listing
       ELSE /\ listing' = [listing EXCEPT ![i] = ListDir(fs.files)]
            /\ pc' = [pc EXCEPT ![i] =
                        IF ListDir(fs.files) = <<>> THEN "cleanup_rmdir" ELSE "cleanup_remove"]
            /\ UNCHANGED <<cleanup_error, result>>
    /\ UNCHANGED <<tvars, bucket, fs, loaded, tables, archive, raised, staged,
                   delivered, output_blob>>

\* Line 141: os.remove of the next listed name; it raises on a name that is gone and
\* on a directory.
CleanupRemove(i) ==
    /\ pc[i] = "cleanup_remove"
    /\ Schedule(i)
    /\ LET name == Head(listing[i])
       IN  IF fs.files[name].kind # "file"
           THEN CleanupRaise(i) /\ UNCHANGED <<fs, listing>>
           ELSE /\ fs' = [fs EXCEPT !.files[name] = NoEntry]
                /\ listing' = [listing EXCEPT ![i] = Tail(@)]
                /\ pc' = [pc EXCEPT ![i] =
                            IF Tail(listing[i]) = <<>> THEN "cleanup_rmdir"
                            ELSE "cleanup_remove"]
                /\ UNCHANGED <<cleanup_error, result>>
    /\ UNCHANGED <<tvars, bucket, loaded, tables, archive, raised, staged, delivered,
                   output_blob>>

\* Line 142: os.rmdir(temp_dir); it raises on a directory that is gone or not empty.
CleanupRmdir(i) ==
    /\ pc[i] = "cleanup_rmdir"
    /\ Schedule(i)
    /\ IF ~fs.exists \/ ListDir(fs.files) # <<>>
       THEN CleanupRaise(i) /\ UNCHANGED fs
       ELSE /\ fs' = [fs EXCEPT !.exists = FALSE]
            /\ Return(i)
            /\ UNCHANGED cleanup_error
    /\ UNCHANGED <<tvars, bucket, loaded, tables, listing, archive, raised, staged,
                   delivered, output_blob>>

(***************************************************************************)
(* Specifications                                                          *)
(***************************************************************************)

\* No invocation is under way, the staging directory is absent.
IdlePipeline ==
    /\ bucket = [f \in Range(file_paths) |-> Blob("absent", <<>>)]
    /\ fs = [exists |-> FALSE, files |-> EmptyDir]
    /\ pc = [i \in Invocations |-> "done"]
    /\ loaded = [i \in Invocations |-> 0]
    /\ tables = [i \in Invocations |-> NoTables]
    /\ listing = [i \in Invocations |-> <<>>]
    /\ archive = [i \in Invocations |-> NoArchive]
    /\ raised = [i \in Invocations |-> NoError]
    /\ cleanup_error = [i \in Invocations |-> FALSE]
    /\ staged = [i \in Invocations |-> {}]
    /\ delivered = [i \in Invocations |-> NotDelivered]
    /\ output_blob = NotDelivered
    /\ result = [i \in Invocations |-> "None"]
    /\ running = ""
    /\ preemptions = 0

\* No transformation is under way.
IdleTransform ==
    /\ sales_df = <<>>
    /\ sales_agg = <<>>
    /\ sales_fact_table = <<>>
    /\ time_dim = <<>>
    /\ tpc = "idle"

\* The transformation is about to run on some Sales table.
InitT ==
    /\ sales_df \in SalesTables
    /\ sales_agg = <<>>
    /\ sales_fact_table = <<>>
    /\ time_dim = <<>>
    /\ tpc = "agg"
    /\ IdlePipeline

NextT == Aggregate \/ Merge \/ BuildTimeDim

SpecT == InitT /\ [][NextT]_vars

\* Every invocation is about to run, on one bucket and one staging directory.
Init ==
    /\ IdleTransform
    /\ bucket \in Buckets
    /\ fs \in InitialStaging
    /\ pc = [i \in Invocations |-> "load"]
    /\ loaded = [i \in Invocations |-> 0]
    /\ tables = [i \in Invocations |-> NoTables]
    /\ listing = [i \in Invocations |-> <<>>]
    /\ archive = [i \in Invocations |-> NoArchive]
    /\ raised = [i \in Invocations |-> NoError]
    /\ cleanup_error = [i \in Invocations |-> FALSE]
    /\ staged = [i \in Invocations |-> {}]
    /\ delivered = [i \in Invocations |-> NotDelivered]
    /\ output_blob = NotDelivered
    /\ result = [i \in Invocations |-> "running"]
    /\ running = ""
    /\ preemptions = 0

Next ==
    \E i \in Invocations :
        \/ LoadFile(i)
        \/ Transform(i)
        \/ MakeDirs(i)
        \/ StageTable(i)
        \/ OpenZip(i)
        \/ ListForZip(i)
        \/ ZipWrite(i)
        \/ Upload(i)
        \/ CleanupExists(i)
        \/ CleanupList(i)
        \/ CleanupRemove(i)
        \/ CleanupRmdir(i)

Spec == Init /\ [][Next]_vars

(***************************************************************************)
(* Properties of the transformation (SpecT)                                *)
(***************************************************************************)

\* The fact table has been computed by lines 54-75.
FactBuilt == tpc \in {"time", "done"} \/ (tpc = "error" /\ ~AggRaises(sales_df))

KeyColumns == {"SalesID", "ProductID", "CustomerID", "CampaignID", "DeliveryID", "OrderDate"}

\* C6: the fact table has exactly as many rows as the Sales table, and its i-th row
\* carries the six natural keys of the i-th sales row, also when SalesID values repeat
\* or are null.
C6_FactRowsFollowSalesRows ==
    FactBuilt =>
        /\ Len(sales_fact_table) = Len(sales_df)
        /\ \A i \in DOMAIN sales_df :
              \A c \in KeyColumns : sales_fact_table[i][c] = sales_df[i][c]

\* C6 witness: a fact table built from two sales rows, one of them without SalesID.
C6_Witness ==
    /\ FactBuilt
    /\ Len(sales_df) = 2
    /\ sales_df[1].SalesID = NaN
    /\ sales_df[2].SalesID # NaN

\* C7: every fact row carries the sum of SaleAmount, the sum of DeliveryFee and the
\* mean of DiscountApplied over all sales rows with its SalesID (null measures count
\* as zero in the sums and are left out of the mean).
C7_AggregatesOverSalesID ==
    FactBuilt =>
        \A i \in DOMAIN sales_fact_table :
            LET r == sales_fact_table[i]
            IN  /\ r.TotalSaleAmount = SumSkipNa(GroupColumn(sales_df, r.SalesID, "SaleAmount"))
                /\ r.TotalDeliveryFee = SumSkipNa(GroupColumn(sales_df, r.SalesID, "DeliveryFee"))
                /\ r.TotalDiscountApplied =
                       MeanSkipNa(GroupColumn(sales_df, r.SalesID, "DiscountApplied"))

\* The non-empty values of the two date columns.
DateValues == {v \in Range(DateColumns(sales_df)) : v # ""}

C9_TimeIDIsKey ==
    tpc = "done" =>
        /\ \A i, j \in DOMAIN time_dim :
              time_dim[i].TimeID = time_dim[j].TimeID => i = j
        /\ \A i \in DOMAIN time_dim : ParseTimeID(time_dim[i].TimeID) = time_dim[i].Date

(***************************************************************************)
(* Properties of the invocations (Spec)                                    *)
(***************************************************************************)

\* Invocation i has left nothing for delivery: it staged no table, opened no
\* archive and uploaded nothing.
NoOutput(i) == staged[i] = {} /\ ~archive[i].built /\ ~delivered[i].sent

AbsentFiles == {f \in Range(file_paths) : bucket[f].state = "absent"}

\* C2 as stated: with a required file absent, the run fails with the missing-input
\* error naming an absent file, whatever the other files hold, and gives no output.
C2_MissingInputErrorAlways ==
    \A i \in Invocations :
        (AbsentFiles # {} /\ pc[i] = "done") =>
            /\ raised[i].kind = "FileNotFoundError"
            /\ raised[i].name \in AbsentFiles
            /\ NoOutput(i)

\* The position in file_paths of the first file that does not load.
FirstBad == CHOOSE k \in DOMAIN file_paths :
                /\ bucket[file_paths[k]].state # "ok"
                /\ \A j \in 1..(k - 1) : bucket[file_paths[j]].state = "ok"

\* C2 amended: with a required file absent the run gives no output; it fails with the
\* missing-input error naming the first absent file when every required file listed
\* before it parses, and with the parse error of the first malformed file otherwise.
C2_MissingInputErrorUnlessParseErrorFirst ==
    \A i \in Invocations :
        (AbsentFiles # {} /\ pc[i] = "done") =>
            /\ NoOutput(i)
            /\ raised[i].at = "load"
            /\ raised[i].name = file_paths[FirstBad]
            /\ raised[i].kind =
                  IF bucket[file_paths[FirstBad]].state = "absent"
                  THEN "FileNotFoundError" ELSE "ParserError"

\* C2 witness: a run that returned after Sales.csv was found absent, the two files
\* before it having loaded.
C2_Witness ==
    \E i \in Invocations :
        /\ pc[i] = "done"
        /\ raised[i] = Error("FileNotFoundError", "load", "Sales.csv")
        /\ bucket["Delivery.csv"].state = "malformed"

\* C3: every delivered archive holds exactly the six output files, each written by
\* the run that delivers it.
C3_ArchiveIsTheSixTables ==
    \A i \in Invocations :
        delivered[i].sent =>
            delivered[i].entries = {[name |-> n, owner |-> i] : n \in Range(output_names)}

\* C4: while a run is between staging and upload, every table it staged is in the
\* staging directory as it wrote it, and the archive it delivers holds nothing
\* written by another invocation.
C4_NoSharedStagingState ==
    \A i \in Invocations :
        /\ pc[i] \in {"stage", "zip_open", "zip_list", "zip_write", "upload"} =>
              \A n \in staged[i] : fs.exists /\ fs.files[n] = FileBy(i)
        /\ delivered[i].sent =>
              \A e \in delivered[i].entries : e.owner \notin Invocations \ {i}

\* C5: whenever an invocation returns, the staging directory does not exist.
C5_StagingRemovedOnReturn ==
    [][\A i \in Invocations : (pc[i] # "done" /\ pc'[i] = "done") => ~fs'.exists]_vars

\* C10: a run that failed and a run that delivered never hand the same result to
\* their callers.
C10_FailureReportedToCaller ==
    \A i, j \in Invocations :
        ( /\ pc[i] = "done" /\ raised[i] # NoError
          /\ pc[j] = "done" /\ raised[j] = NoError /\ delivered[j].sent )
        => result[i] # result[j]

====
